---- MODULE Spec2Model ----
(***************************************************************************)
(* Outbound request governance of inat.label.py: the sliding-window rate   *)
(* limiter (_rate_limit_wait), the request semaphore and the retry loop of *)
(* fetch_api_data.                                                         *)
(*                                                                         *)
(* Time is the monotonic clock counted in ticks of 1/320 s, the coarsest   *)
(* unit in which 1.5 ** attempt (attempt <= 6) times a jitter of 0.8, 1.0  *)
(* or 1.2 is a whole number, so every wait the code computes is exact.     *)
(***************************************************************************)
EXTENDS Integers, Sequences, FiniteSets, TLC

VARIABLES
    now,                \* time.monotonic(), in ticks
    RATE_LIMIT_RPM,     \* src/inat.label.py:117
    SMOOTH_THRESHOLD,   \* src/inat.label.py:127
    request_times,      \* _request_times, the deque of admission instants
    next_allowed_time,  \* _next_allowed_time
    admitted,           \* history: every instant ever appended to _request_times
    pc,                 \* per thread: where it is in its code
    wake,               \* per thread: the instant its time.sleep() ends
    wait,               \* the `wait` the latest _rate_limit_wait() call computed
    seen,               \* history: the admissions of the last 60 s on record when that call was made
    max_workers,        \* the concurrency target: the value _request_semaphore is built with
    request_semaphore,  \* _request_semaphore: the permits not acquired
    MAX_WAIT_SECONDS,   \* _MAX_WAIT_SECONDS, in ticks
    retries,            \* the `retries` argument of fetch_api_data
    transport,          \* the responses the upstream may give in this run
    attempt,            \* per thread: fetch_api_data's `attempt`
    total_wait,         \* per thread: fetch_api_data's `total_wait`, in ticks
    backoff,            \* per thread: the `wait` of the retry it is sleeping on, in ticks
    resp,               \* per thread: the response of the current attempt
    first_retry_after,  \* per thread: the numeric Retry-After of the first response of this fetch, if a 429 carried one
    result,             \* per thread: the error string fetch_api_data returned ("ok": a payload and no error)
    overloads,          \* history: the instants of the 429 responses of the last 10 s
    pending,            \* the inputs no worker has taken yet
    notified_patience,  \* per thread: fetch_api_data's `notified_patience`
    notices,            \* history, per thread: the 'being patient' notes this fetch has printed
    QUIET,              \* _QUIET
    retry_messages,     \* history, per thread: the kinds of retry whose per-attempt message this fetch has printed
    requests_sent,      \* history, per thread: the HTTP requests the session.get() of its current attempt has put on the wire
    taxon_cache,        \* _taxon_cache: per taxon id "absent" (no entry), "partial" (an item without ancestors) or "full"
    tkey,               \* per thread: get_taxon_details' `tid` (0: none yet)
    cached,             \* per thread: get_taxon_details' `cached`
    returned,           \* per thread: the value get_taxon_details returned
    via,                \* history, per thread: its lookup was served from the "cache" or called "fetch"
    taxon_fetches,      \* history, per taxon id: the fetch_api_data calls made for it
    failed_lookups,     \* history: the taxon ids a lookup of which has failed or come back empty
    after_failure,      \* history, per thread: its lookup began after one of the same id had failed
    main_pc,            \* where main() is: "start", "running", "collected", "finished" or "ValueError"
    find_ca,            \* args.find_ca
    inputs,             \* observation_ids: per input, whether extract_observation_id recognises it
    job,                \* per thread: the input its process_one call works on (0: none)
    futures,            \* per input: the (status, payload) its future holds, payload as text and identifier named
    own,                \* history, per input: how its own fetch ended
    next_future,        \* the future main() collects next
    labels,             \* main's `labels`: the identifiers labelled, in order
    failed,             \* main's `failed`: the failure messages, in order
    summary,            \* the (requested, generated, failed) of the summary line, once printed
    holding,            \* per thread: the locks and permits it holds
    batch_pc,           \* where the batcher's _loop is: "collect", "fetch", "fulfil_write", "fulfil_signal" or "completed"
    taxon_batch_queue,  \* _taxon_batch_queue
    ids,                \* _loop's `ids`, the batch
    results_by_id,      \* _loop's `results_by_id`: per key the item the response had ("absent": none)
    taxon_pending,      \* _taxon_pending: the keys with an event registered
    woken,              \* per thread: the event it waits on is set
    fulfilled,          \* how many keys of the batch the `for tid in ids` loop has done
    written,            \* history: the keys whose cache entry the batch under way has written
    MAX_CONCURRENT_JOBS, \* src/flask web frontend/app.py:31
    FINISHED_JOB_TTL,   \* src/flask web frontend/app.py:32, in seconds
    req,                \* per print_start request: where its handler is
    proc,               \* per request: its subprocess ("none", "running" or "exited")
    jobs,               \* _jobs: the requests whose job is in the table
    finished_time,      \* per request: its job's 'finished_time', in ticks (-1: not set)
    stream              \* per request: the print_stream response of its job ("none", "open" or "closed")

rate_vars == <<RATE_LIMIT_RPM, SMOOTH_THRESHOLD, request_times, next_allowed_time, admitted>>
fetch_vars == <<max_workers, request_semaphore, MAX_WAIT_SECONDS, retries, transport, attempt,
                total_wait, backoff, resp, first_retry_after, result, overloads, pending,
                notified_patience, notices, QUIET, retry_messages, requests_sent>>
caller_vars == <<taxon_cache, tkey, cached, returned, via, taxon_fetches, failed_lookups, after_failure>>
main_vars == <<main_pc, find_ca, inputs, job, futures, own, next_future, labels, failed, summary>>
lock_vars == <<holding>>
batch_vars == <<batch_pc, taxon_batch_queue, ids, results_by_id, taxon_pending, woken, fulfilled,
                written>>
web_vars == <<MAX_CONCURRENT_JOBS, FINISHED_JOB_TTL, req, proc, jobs, finished_time, stream>>
vars == <<now, RATE_LIMIT_RPM, SMOOTH_THRESHOLD, request_times, next_allowed_time,
          admitted, pc, wake, wait, seen, max_workers, request_semaphore, MAX_WAIT_SECONDS,
          retries, transport, attempt, total_wait, backoff, resp, first_retry_after, result,
          overloads, pending, notified_patience, notices, QUIET, retry_messages, requests_sent, taxon_cache, tkey, cached, returned,
          via, taxon_fetches, failed_lookups, after_failure, main_pc, find_ca, inputs, job,
          futures, own, next_future, labels, failed, summary, holding, batch_pc,
          taxon_batch_queue, ids, results_by_id, taxon_pending, woken, fulfilled, written,
          MAX_CONCURRENT_JOBS, FINISHED_JOB_TTL, req, proc, jobs, finished_time, stream>>

---------------------------------------------------------------------------
(* Bounds of the model *)
NThreads == 2
NTasks == 3
MaxCalls == 6
MaxClock == 125
NTaxa == 1
NKeys == 2
NRequests == 3
MaxWebClock == 3

(* Program constants *)
retries_default == 6
window_seconds == 60

Threads == 1..NThreads
TaxonIds == 1..NTaxa
BatchKeys == 1..NKeys
Requests == 1..NRequests
Inputs == 1..NTasks
TicksPerSecond == 5 * (2 ^ retries_default)
Sec(s) == s * TicksPerSecond
window == Sec(window_seconds)

Max(a, b) == IF a >= b THEN a ELSE b
Min(a, b) == IF a <= b THEN a ELSE b

---------------------------------------------------------------------------
(* _rate_limit_wait: the part computed under _rate_lock *)

\* _MIN_INTERVAL = 60.0 / RATE_LIMIT_RPM (0.0 when the rate is not positive)
MIN_INTERVAL(rpm) == IF rpm > 0 THEN window \div rpm ELSE 0

\* step 1: while _request_times and now - _request_times[0] > window: popleft()
RECURSIVE prune(_, _)
prune(times, t) ==
    IF times # <<>> /\ t - Head(times) > window
    THEN prune(Tail(times), t)
    ELSE times

\* step 2: the hard cap, measured on the oldest entry still in the window
wait_for_cap(times, t, rpm) ==
    IF Len(times) >= rpm THEN (Head(times) + window) - t ELSE 0

\* (mutant) smoothing from the first request on
burst_mode_never(times, thr) == FALSE

\* step 3: burst mode while fewer than _SMOOTH_THRESHOLD entries are in the window
burst_mode(times, thr) == Len(times) < thr

caught_up(na, t) == IF na < t THEN t ELSE na

smoothing_target(times, t, na, thr) ==
    IF burst_mode(times, thr) THEN t ELSE caught_up(na, t)

\* step 4: final_time = max(now + wait_for_cap, smoothing_target)
final_time(times, t, na, rpm, thr) ==
    Max(t + wait_for_cap(times, t, rpm), smoothing_target(times, t, na, thr))

\* step 5: the cursor after the call
advance_cursor(times, t, na, rpm, thr) ==
    IF burst_mode(times, thr)
    THEN final_time(times, t, na, rpm, thr)
    ELSE final_time(times, t, na, rpm, thr) + MIN_INTERVAL(rpm)

\* history: how many recorded admissions lie in the 60 s that end at t (or later)
in_window(hist, t) == Cardinality({i \in 1..Len(hist) : t - hist[i] <= window})

\* (mutant) a switched-off limiter still records the call
rate_limit_wait_recording(t, asleep, ret) ==
    /\ pc' = [pc EXCEPT ![t] = ret]
    /\ wake' = [wake EXCEPT ![t] = 0]
    /\ request_times' = Append(request_times, now)
    /\ next_allowed_time' = now
    /\ admitted' = Append(admitted, now)
    /\ UNCHANGED <<wait, seen>>

\* _rate_limit_wait() run by thread t; it sleeps at pc `asleep` or returns to pc `ret`
rate_limit_wait(t, asleep, ret) ==
    IF RATE_LIMIT_RPM <= 0
    THEN /\ pc' = [pc EXCEPT ![t] = ret]
         /\ wake' = [wake EXCEPT ![t] = 0]
         /\ UNCHANGED <<request_times, next_allowed_time, admitted, wait, seen>>
    ELSE LET times == prune(request_times, now)
             ft    == final_time(times, now, next_allowed_time, RATE_LIMIT_RPM, SMOOTH_THRESHOLD)
         IN /\ request_times' = Append(times, ft)
            /\ next_allowed_time' =
                   advance_cursor(times, now, next_allowed_time, RATE_LIMIT_RPM, SMOOTH_THRESHOLD)
            /\ admitted' = Append(admitted, ft)
            /\ wait' = ft - now
            /\ seen' = in_window(admitted, now)
            /\ IF ft - now > 0
               THEN /\ pc' = [pc EXCEPT ![t] = asleep]
                    /\ wake' = [wake EXCEPT ![t] = ft]
               ELSE /\ pc' = [pc EXCEPT ![t] = ret]
                    /\ wake' = [wake EXCEPT ![t] = 0]

---------------------------------------------------------------------------
(* fetch_api_data: responses, their classification and the retry waits *)

\* response.headers.get('Retry-After'): absent, seconds, an HTTP-date (seconds from now) or neither
RetryAfterHeaders == {<<"absent">>, <<"seconds", 2>>, <<"seconds", 40>>, <<"date", 0 - 5>>, <<"garbage">>}

\* what session.get() gives: a response (status, body, Retry-After) or an exception
Response(exc, status, body, ra) == [exc |-> exc, status |-> status, body |-> body, retry_after |-> ra]
NoResponse == Response("none", 0, "", <<"absent">>)
Responses ==
    {Response("none", 200, b, <<"absent">>) : b \in {"json", "empty", "garbage"}}
        \cup {Response("none", st, "", <<"absent">>) : st \in {404, 503, 403}}
        \cup {Response("none", 429, "", h) : h \in RetryAfterHeaders}
        \cup {Response(e, 0, "", <<"absent">>) : e \in {"Timeout", "RequestException", "Exception"}}

\* random.uniform(0.8, 1.2), in tenths: its two ends and its middle
Jitter == {8, 10, 12}

half_second == TicksPerSecond \div 2

\* (mutant) the Retry-After header is never read
parse_retry_after_ignored(r) == 0 - 1

\* _parse_retry_after: seconds in ticks, or -1 for None
parse_retry_after(r) ==
    LET ra == r.retry_after
    IN CASE ra[1] = "seconds" -> Sec(ra[2])
         [] ra[1] = "date"    -> Max(0, Sec(ra[2]))
         [] OTHER             -> 0 - 1

\* 1.5 ** a in ticks, exact for a <= 6
pow15(a) == (3 ^ a) * (2 ^ (retries_default - a)) * 5

\* the wait before jitter and clamp, by branch
base_wait_429(r, a) ==
    IF parse_retry_after(r) = 0 - 1 THEN Min(Sec(60), Sec(2 ^ a)) ELSE parse_retry_after(r)
base_wait_5xx(a) == Min(Sec(30), pow15(a))
base_wait_exception(a) == Min(Sec(20), pow15(a))

\* wait *= random.uniform(0.8, 1.2)
jittered(w, j) == (w * j) \div 10

\* remaining = max_total_wait - total_wait; wait = max(0.5, min(wait, remaining))
clamp(w, budget, total) == Max(half_second, Min(w, budget - total))

\* (mutant) a 404 is retried like a server error
is_transient_with_404(r) ==
    \/ r.exc \in {"Timeout", "RequestException"}
    \/ r.exc = "none" /\ r.status = 429
    \/ r.exc = "none" /\ 500 <= r.status /\ r.status < 600
    \/ r.exc = "none" /\ r.status = 404

\* (mutant) a 5xx is not retried
is_transient_without_5xx(r) ==
    \/ r.exc \in {"Timeout", "RequestException"}
    \/ r.exc = "none" /\ r.status = 429

\* (mutant) every 4xx but 404 is retried like a server error
is_transient_from_400(r) ==
    \/ r.exc \in {"Timeout", "RequestException"}
    \/ r.exc = "none" /\ r.status = 429
    \/ r.exc = "none" /\ 400 <= r.status /\ r.status < 600 /\ r.status # 404

\* the branch of the try block a response takes
is_transient(r) ==
    \/ r.exc \in {"Timeout", "RequestException"}
    \/ r.exc = "none" /\ r.status = 429
    \/ r.exc = "none" /\ 500 <= r.status /\ r.status < 600

\* the error a terminal response returns ("ok": the payload, no error)
terminal_result(r) ==
    CASE r.exc = "Exception"                        -> "Unexpected error"
      [] r.status = 200 /\ r.body = "empty"         -> "Empty response"
      [] r.status = 200 /\ r.body = "garbage"       -> "Error parsing JSON"
      [] r.status = 200                             -> "ok"
      [] r.status = 404                             -> "Not found (404)"
      [] OTHER                                      -> "HTTP error"

\* the wait a transient response leads to
retry_wait(r, a, j, budget, total) ==
    CASE r.exc \in {"Timeout", "RequestException"} ->
             clamp(jittered(base_wait_exception(a), j), budget, total)
      [] r.status = 429 -> clamp(jittered(base_wait_429(r, a), j), budget, total)
      [] OTHER          -> clamp(jittered(base_wait_5xx(a), j), budget, total)

\* Retry(total=2, status_forcelist=[500, 502, 503, 504], allowed_methods=["GET"])
adapter_total == 2
status_forcelist == {500, 502, 503, 504}

\* the requests one session.get() can put on the wire: the adapter mounted by
\* get_session sends the GET again, up to `total` times, when the upstream answers
\* with a status of the force list
wire_requests(upstream) ==
    IF \E x \in upstream : x.exc = "none" /\ x.status \in status_forcelist
    THEN 1..(1 + adapter_total)
    ELSE {1}

\* the kind of retry a transient response leads to, by the branch that handles it
retry_kind(r) ==
    CASE r.exc = "Timeout"          -> "Timeout/SSL error"
      [] r.exc = "RequestException" -> "Network error"
      [] r.status = 429             -> "HTTP 429"
      [] OTHER                      -> "Server error"

\* the per-attempt message a retry prints: the 429 line only `if not _QUIET`, the
\* print_error lines of the other branches always
retry_message(r, quiet) ==
    IF r.exc = "none" /\ r.status = 429 /\ quiet THEN {} ELSE {retry_kind(r)}

patience_notice_threshold == 8

\* if not notified_patience and (total_wait + wait) >= patience_notice_threshold
patience_due(notified, total, w) == ~notified /\ total + w >= Sec(patience_notice_threshold)

\* the value notified_patience has after the note is printed: only the 429 branch
\* assigns notified_patience = True
sets_notified(r) == r.exc = "none" /\ r.status = 429

\* (mutant) three 429s within 10 s lower the target by one, down to 1
target_after_429_adaptive(target, recent) ==
    IF Len(recent) >= 3 /\ target > 1 THEN target - 1 ELSE target

\* the 429 branch leaves the semaphore as main() built it
target_after_429(target, recent) == target

\* history helper: the instants of a log that lie within the last 10 s
recent_overloads(log, t) == SelectSeq(log, LAMBDA x : t - x <= Sec(10))

---------------------------------------------------------------------------
(* The rate limiter on its own: threads that call _rate_limit_wait() in a loop *)

\* a caller thread enters _rate_limit_wait()
CallRateLimitWait(t) ==
    /\ pc[t] = "rl_idle"
    /\ Len(admitted) < MaxCalls
    /\ rate_limit_wait(t, "rl_sleep", "rl_idle")
    /\ UNCHANGED <<web_vars, batch_vars, now, RATE_LIMIT_RPM, SMOOTH_THRESHOLD, fetch_vars,
                   caller_vars, main_vars, lock_vars>>

\* step 6: time.sleep(wait) is over
RateSleepDone(t) ==
    /\ pc[t] = "rl_sleep"
    /\ now >= wake[t]
    /\ pc' = [pc EXCEPT ![t] = "rl_idle"]
    /\ wake' = [wake EXCEPT ![t] = 0]
    /\ UNCHANGED <<web_vars, batch_vars, now, rate_vars, wait, seen, fetch_vars, caller_vars,
                   main_vars, lock_vars>>

---------------------------------------------------------------------------
(* fetch_api_data, one thread's call *)

\* the head of the retry loop, reached with `tw` seconds waited so far:
\* while attempt < retries: attempt += 1; _rate_limit_wait()
\* and, once the loop ends, return None, "Exceeded maximum retries ..."
loop_head(t, n, tw) ==
    /\ total_wait' = [total_wait EXCEPT ![t] = tw]
    /\ backoff' = [backoff EXCEPT ![t] = 0]
    /\ resp' = [resp EXCEPT ![t] = NoResponse]
    /\ requests_sent' = [requests_sent EXCEPT ![t] = 0]
    /\ IF n < retries
       THEN /\ attempt' = [attempt EXCEPT ![t] = n + 1]
            /\ rate_limit_wait(t, "rate_sleep", "acquire")
       ELSE /\ pc' = [pc EXCEPT ![t] = "done"]
            /\ attempt' = [attempt EXCEPT ![t] = n]
            /\ wake' = [wake EXCEPT ![t] = 0]
            /\ UNCHANGED <<request_times, next_allowed_time, admitted, wait, seen>>

\* fetch_api_data is entered: attempt = 0, total_wait = 0.0, notified_patience = False,
\* and the loop runs its first pass
enter_fetch(t) ==
    /\ first_retry_after' = [first_retry_after EXCEPT ![t] = 0 - 1]
    /\ loop_head(t, 0, 0)
    /\ result' = [result EXCEPT ![t] = "none"]
    /\ notified_patience' = [notified_patience EXCEPT ![t] = FALSE]
    /\ notices' = [notices EXCEPT ![t] = 0]
    /\ retry_messages' = [retry_messages EXCEPT ![t] = {}]

\* a pool worker takes the next input and calls fetch_api_data(url, retries)
StartFetch(t) ==
    /\ pc[t] \in {"idle", "done"}
    /\ pending > 0
    /\ pending' = pending - 1
    /\ enter_fetch(t)
    /\ UNCHANGED <<web_vars, batch_vars, now, RATE_LIMIT_RPM, SMOOTH_THRESHOLD, max_workers,
                   request_semaphore, MAX_WAIT_SECONDS, retries, transport, overloads, QUIET,
                   caller_vars, main_vars, lock_vars>>

\* time.sleep(wait) is over; total_wait += wait; continue
BackoffDone(t) ==
    /\ pc[t] = "backoff"
    /\ now >= wake[t]
    /\ loop_head(t, attempt[t], total_wait[t] + backoff[t])
    /\ result' = [result EXCEPT ![t] =
                      IF attempt[t] < retries THEN "none" ELSE "Exceeded maximum retries"]
    /\ UNCHANGED <<web_vars, batch_vars, now, RATE_LIMIT_RPM, SMOOTH_THRESHOLD, max_workers,
                   request_semaphore, MAX_WAIT_SECONDS, retries, transport, first_retry_after,
                   overloads, pending, notified_patience, notices, QUIET, retry_messages,
                   caller_vars, main_vars, lock_vars>>

\* the sleep of _rate_limit_wait() is over
AdmissionSleepDone(t) ==
    /\ pc[t] = "rate_sleep"
    /\ now >= wake[t]
    /\ pc' = [pc EXCEPT ![t] = "acquire"]
    /\ wake' = [wake EXCEPT ![t] = 0]
    /\ UNCHANGED <<web_vars, batch_vars, now, rate_vars, wait, seen, fetch_vars, caller_vars,
                   main_vars, lock_vars>>

\* (mutant) the permit is not given back
released_leaked(permits) == permits

\* the with _request_semaphore block ends, by return or by exception: release()
released(permits) == permits + 1

\* (mutant) acquire never blocks
may_acquire_always(permits) == TRUE

\* with _request_semaphore: (acquire blocks while no permit is left)
may_acquire(permits) == permits > 0

Acquire(t) ==
    /\ pc[t] = "acquire"
    /\ may_acquire(request_semaphore)
    /\ request_semaphore' = request_semaphore - 1
    /\ pc' = [pc EXCEPT ![t] = "inflight"]
    /\ UNCHANGED <<web_vars, batch_vars, now, rate_vars, wake, wait, seen, max_workers,
                   MAX_WAIT_SECONDS, retries, transport, attempt, total_wait, backoff, resp,
                   first_retry_after, result, overloads, pending, notified_patience, notices,
                   QUIET, retry_messages, requests_sent, caller_vars, main_vars, lock_vars>>

\* session.get() returns or raises, the with block releases the permit, and the
\* response is classified: a terminal one returns, a transient one starts its sleep
Receive(t) ==
    /\ pc[t] = "inflight"
    /\ \E r \in transport, j \in Jitter, n \in wire_requests(transport) :
        /\ resp' = [resp EXCEPT ![t] = r]
        /\ requests_sent' = [requests_sent EXCEPT ![t] = n]
        /\ request_semaphore' = released(request_semaphore)
        /\ first_retry_after' =
               [first_retry_after EXCEPT ![t] =
                   IF attempt[t] = 1
                   THEN (IF r.status = 429 /\ r.retry_after[1] = "seconds"
                         THEN r.retry_after[2] ELSE 0 - 1)
                   ELSE @]
        /\ IF is_transient(r)
           THEN /\ backoff' = [backoff EXCEPT ![t] =
                                   retry_wait(r, attempt[t], j, MAX_WAIT_SECONDS, total_wait[t])]
                /\ wake' = [wake EXCEPT ![t] = now + backoff'[t]]
                /\ pc' = [pc EXCEPT ![t] = "backoff"]
                /\ overloads' = IF r.status = 429
                                THEN recent_overloads(Append(overloads, now), now)
                                ELSE overloads
                /\ max_workers' = IF r.status = 429
                                  THEN target_after_429(max_workers, overloads')
                                  ELSE max_workers
                /\ notices' = [notices EXCEPT ![t] =
                                   IF patience_due(notified_patience[t], total_wait[t], backoff'[t])
                                   THEN @ + 1 ELSE @]
                /\ notified_patience' = [notified_patience EXCEPT ![t] =
                                             IF patience_due(@, total_wait[t], backoff'[t])
                                             THEN sets_notified(r) ELSE @]
                /\ retry_messages' = [retry_messages EXCEPT ![t] = @ \cup retry_message(r, QUIET)]
                /\ UNCHANGED result
           ELSE /\ result' = [result EXCEPT ![t] = terminal_result(r)]
                /\ pc' = [pc EXCEPT ![t] = "done"]
                /\ UNCHANGED <<backoff, wake, overloads, max_workers, notified_patience, notices,
                                retry_messages>>
    /\ UNCHANGED <<web_vars, batch_vars, now, rate_vars, wait, seen, MAX_WAIT_SECONDS, retries,
                   transport, attempt, total_wait, pending, QUIET, caller_vars, main_vars,
                   lock_vars>>

---------------------------------------------------------------------------
(* get_taxon_details, a worker's taxon lookup *)

\* (mutant) any entry is served from the cache, with ancestors or without
cache_hit_any(c) == c # "absent"

\* (mutant) the cache is never consulted
cache_hit_never(c) == FALSE

\* if cached and cached.get('ancestors') is not None
cache_hit(c) == c = "full"

\* the bodies a /v1/taxa/{id} answer can have: results[0] with ancestors, results[0]
\* without, and an empty results list
TaxonBodies == {"full", "partial", "no_results"}

\* if error: ... return cached; if data and data.get('results'): ...; return cached
lookup_failed(res, r) == res # "ok" \/ r.body \notin {"full", "partial"}

\* (mutant) a failed lookup stores its absence
cache_after_negative(cache, k, res, r) ==
    [cache EXCEPT ![k] = IF lookup_failed(res, r) THEN "absent" ELSE r.body]

\* _taxon_cache after the fetch has returned: _taxon_cache[tid] = item on success only
cache_after(cache, k, res, r) ==
    IF lookup_failed(res, r) THEN cache ELSE [cache EXCEPT ![k] = r.body]

\* get_taxon_details(taxon_id) up to its return from the cache or its call of fetch_api_data
Resolve(t, k) ==
    /\ pc[t] \in {"tx_idle", "resolved"}
    /\ pending > 0
    /\ pending' = pending - 1
    /\ tkey' = [tkey EXCEPT ![t] = k]
    /\ cached' = [cached EXCEPT ![t] = taxon_cache[k]]
    /\ after_failure' = [after_failure EXCEPT ![t] = k \in failed_lookups]
    /\ IF cache_hit(taxon_cache[k])
       THEN /\ returned' = [returned EXCEPT ![t] = taxon_cache[k]]
            /\ via' = [via EXCEPT ![t] = "cache"]
            /\ pc' = [pc EXCEPT ![t] = "resolved"]
            /\ UNCHANGED <<taxon_fetches, request_times, next_allowed_time, admitted, wake, wait,
                           seen, attempt, total_wait, backoff, resp, first_retry_after, result,
                           notified_patience, notices, retry_messages, requests_sent>>
       ELSE /\ returned' = [returned EXCEPT ![t] = "none"]
            /\ via' = [via EXCEPT ![t] = "fetch"]
            /\ taxon_fetches' = [taxon_fetches EXCEPT ![k] = @ + 1]
            /\ enter_fetch(t)
    /\ UNCHANGED <<web_vars, batch_vars, now, RATE_LIMIT_RPM, SMOOTH_THRESHOLD, max_workers,
                   request_semaphore, MAX_WAIT_SECONDS, retries, transport, overloads, QUIET,
                   taxon_cache, failed_lookups, main_vars, lock_vars>>

\* fetch_api_data has returned to get_taxon_details, which stores an item and returns
\* it, or returns `cached`; the locals of the fetch are gone
ResolveDone(t) ==
    /\ pc[t] = "done"
    /\ tkey[t] # 0
    /\ taxon_cache' = cache_after(taxon_cache, tkey[t], result[t], resp[t])
    /\ returned' = [returned EXCEPT ![t] =
                   IF lookup_failed(result[t], resp[t]) THEN cached[t] ELSE resp[t].body]
    /\ failed_lookups' = IF lookup_failed(result[t], resp[t]) THEN failed_lookups \cup {tkey[t]} ELSE failed_lookups
    /\ pc' = [pc EXCEPT ![t] = "resolved"]
    /\ attempt' = [attempt EXCEPT ![t] = 0]
    /\ total_wait' = [total_wait EXCEPT ![t] = 0]
    /\ resp' = [resp EXCEPT ![t] = NoResponse]
    /\ first_retry_after' = [first_retry_after EXCEPT ![t] = 0 - 1]
    /\ result' = [result EXCEPT ![t] = "none"]
    /\ notified_patience' = [notified_patience EXCEPT ![t] = FALSE]
    /\ notices' = [notices EXCEPT ![t] = 0]
    /\ retry_messages' = [retry_messages EXCEPT ![t] = {}]
    /\ requests_sent' = [requests_sent EXCEPT ![t] = 0]
    /\ UNCHANGED <<web_vars, batch_vars, QUIET, now, rate_vars, wake, wait, seen, max_workers,
                   request_semaphore, MAX_WAIT_SECONDS, retries, transport, backoff, overloads,
                   pending, tkey, cached, via, taxon_fetches, after_failure, main_vars,
                   lock_vars>>

---------------------------------------------------------------------------
(* main: the worker pool, process_one and the collection of the futures *)

\* a future's content: a status and a payload, the payload given as its text and the
\* identifier it names (0: none)
Outcome(status, text, names) == [status |-> status, text |-> text, names |-> names]
Queued == Outcome("queued", "", 0)

\* (mutant) the failure messages name no identifier
process_one_unnamed(i, valid, fca, res, r) ==
    IF ~valid THEN Outcome("err", "Invalid input", 0)
    ELSE IF res # "ok"
         THEN (IF fca THEN Outcome("err", "Unexpected error for", 0)
               ELSE Outcome("err", "Could not create label for", 0))
    ELSE IF fca THEN Outcome("skip", "", 0)
    ELSE IF r.body = "odd" THEN Outcome("err", "Unexpected error for", 0)
    ELSE Outcome("ok", "label", i)

\* (mutant) no try/except around the body of process_one
process_one_uncaught(i, valid, fca, res, r) ==
    IF ~valid THEN Outcome("err", "Invalid input", i)
    ELSE IF res # "ok"
         THEN (IF fca THEN Outcome("raise", "AttributeError", 0)
               ELSE Outcome("err", "Could not create label for", i))
    ELSE IF fca THEN Outcome("skip", "", 0)
    ELSE IF r.body = "odd" THEN Outcome("raise", "Exception", 0)
    ELSE Outcome("ok", "label", i)

\* process_one(input_value) for input i, given the (data, error) its fetch came back
\* with: an unrecognised input, no observation data (None has no .get under
\* --find-ca, and yields no label otherwise), --find-ca, a label builder that
\* raises, or a label
process_one(i, valid, fca, res, r) ==
    IF ~valid THEN Outcome("err", "Invalid input", i)
    ELSE IF res # "ok"
         THEN (IF fca THEN Outcome("err", "Unexpected error for", i)
               ELSE Outcome("err", "Could not create label for", i))
    ELSE IF fca THEN Outcome("skip", "", 0)
    ELSE IF r.body = "odd" THEN Outcome("err", "Unexpected error for", i)
    ELSE Outcome("ok", "label", i)

\* max_workers = args.workers if args.workers else int(os.environ.get('INAT_MAX_WORKERS', '5'))
\* (arg 0 stands for None as for 0: both are falsy)
workers_setting(arg, env) == IF arg # 0 THEN arg ELSE env

WorkerArgs == {0, 0 - 1, 1, NThreads}
WorkerEnvs == {0, NThreads}

\* main builds the semaphore and the pool and submits every input (lines 2452-2460);
\* BoundedSemaphore raises ValueError below 0 and ThreadPoolExecutor below 1
Setup ==
    /\ main_pc = "start"
    /\ \E arg \in WorkerArgs :
        LET mw == workers_setting(arg, max_workers)
        IN /\ max_workers' = mw
           /\ request_semaphore' = IF mw < 0 THEN request_semaphore ELSE mw
           /\ main_pc' = IF mw < 1 THEN "ValueError" ELSE "running"
    /\ UNCHANGED <<web_vars, batch_vars, now, rate_vars, pc, wake, wait, seen,
                   MAX_WAIT_SECONDS, retries, transport, attempt, total_wait, backoff, resp,
                   first_retry_after, result, overloads, pending, notified_patience, notices,
                   QUIET, retry_messages, requests_sent, caller_vars, find_ca, inputs, job,
                   futures, own, next_future, labels, failed, summary, lock_vars>>

\* the input the executor hands out next: submission order
next_input == Cardinality(Inputs) - pending + 1

\* a pool thread takes the next input and runs process_one up to its call of
\* fetch_api_data (through get_observation_data), or to its return for an
\* unrecognised input
Work(t) ==
    /\ main_pc = "running"
    /\ t <= max_workers
    /\ pc[t] = "w_idle"
    /\ pending > 0
    /\ pending' = pending - 1
    /\ IF inputs[next_input]
       THEN /\ job' = [job EXCEPT ![t] = next_input]
            /\ futures' = [futures EXCEPT ![next_input] = Outcome("running", "", 0)]
            /\ enter_fetch(t)
            /\ UNCHANGED own
       ELSE /\ futures' = [futures EXCEPT ![next_input] =
                               process_one(next_input, FALSE, find_ca, "none", NoResponse)]
            /\ own' = [own EXCEPT ![next_input] = "invalid"]
            /\ UNCHANGED <<job, request_times, next_allowed_time, admitted, pc, wake, wait, seen,
                           attempt, total_wait, backoff, resp, first_retry_after, result,
                           notified_patience, notices, retry_messages, requests_sent>>
    /\ UNCHANGED <<web_vars, batch_vars, now, RATE_LIMIT_RPM, SMOOTH_THRESHOLD, max_workers,
                   request_semaphore, MAX_WAIT_SECONDS, retries, transport, overloads, QUIET,
                   caller_vars, main_pc, find_ca, inputs, next_future, labels, failed, summary,
                   lock_vars>>

\* how a fetch ended, for the record
fetch_ending(res, r) == IF res # "ok" THEN "error" ELSE r.body

\* fetch_api_data has returned: the rest of process_one runs and its future is set;
\* the locals of the fetch are gone
WorkDone(t) ==
    /\ pc[t] = "done"
    /\ job[t] # 0
    /\ futures' = [futures EXCEPT ![job[t]] =
                       process_one(job[t], TRUE, find_ca, result[t], resp[t])]
    /\ own' = [own EXCEPT ![job[t]] = fetch_ending(result[t], resp[t])]
    /\ job' = [job EXCEPT ![t] = 0]
    /\ pc' = [pc EXCEPT ![t] = "w_idle"]
    /\ attempt' = [attempt EXCEPT ![t] = 0]
    /\ total_wait' = [total_wait EXCEPT ![t] = 0]
    /\ resp' = [resp EXCEPT ![t] = NoResponse]
    /\ first_retry_after' = [first_retry_after EXCEPT ![t] = 0 - 1]
    /\ result' = [result EXCEPT ![t] = "none"]
    /\ notified_patience' = [notified_patience EXCEPT ![t] = FALSE]
    /\ notices' = [notices EXCEPT ![t] = 0]
    /\ retry_messages' = [retry_messages EXCEPT ![t] = {}]
    /\ requests_sent' = [requests_sent EXCEPT ![t] = 0]
    /\ UNCHANGED <<web_vars, batch_vars, QUIET, now, rate_vars, wake, wait, seen, max_workers,
                   request_semaphore, MAX_WAIT_SECONDS, retries, transport, backoff, overloads,
                   pending, caller_vars, main_pc, find_ca, inputs, next_future, labels, failed,
                   summary, lock_vars>>

\* (mutant) the newest label goes to the front
labels_after_prepended(l, f) == IF f.status = "ok" THEN <<f.names>> \o l ELSE l

\* if status == 'ok' and payload: labels.append(payload)
labels_after(l, f) == IF f.status = "ok" THEN Append(l, f.names) ELSE l

\* (mutant) failures are not recorded
failed_after_dropped(l, f) == l

\* elif status == 'err' and payload: failed.append(payload)
failed_after(l, f) == IF f.status = "err" THEN Append(l, <<f.text, f.names>>) ELSE l

\* for fut in futures: status, payload = fut.result() ... (one pass of the loop;
\* result() blocks until the future is set and re-raises what process_one raised)
Collect ==
    /\ main_pc = "running"
    /\ next_future \in Inputs
    /\ futures[next_future].status \notin {"queued", "running"}
    /\ LET f == futures[next_future]
       IN /\ labels' = labels_after(labels, f)
          /\ failed' = failed_after(failed, f)
          /\ main_pc' = IF f.status = "raise" THEN f.text
                        ELSE IF next_future = Cardinality(Inputs) THEN "collected"
                        ELSE "running"
    /\ next_future' = next_future + 1
    /\ UNCHANGED <<web_vars, batch_vars, now, rate_vars, pc, wake, wait, seen, fetch_vars,
                   caller_vars, find_ca, inputs, job, futures, own, summary, lock_vars>>

\* the summary line, printed unless --find-ca (lines 2468, 2531-2540)
Summarize ==
    /\ main_pc = "collected"
    /\ main_pc' = "finished"
    /\ summary' = IF find_ca THEN <<>>
                  ELSE <<Cardinality(Inputs), Len(labels), Len(failed)>>
    /\ UNCHANGED <<web_vars, batch_vars, now, rate_vars, pc, wake, wait, seen, fetch_vars,
                   caller_vars, find_ca, inputs, job, futures, own, next_future, labels,
                   failed, lock_vars>>

---------------------------------------------------------------------------
(* The locks a worker takes on its way through process_one: _rate_lock inside     *)
(* _rate_limit_wait, a permit of _request_semaphore around session.get, and       *)
(* _taxon_cache_lock around each access of _taxon_cache in get_taxon_details.     *)
(* Only the order of acquisitions, releases and sleeps is kept; what a fetch or a *)
(* cache read brings is a free choice. tkey is 0 while the observation is fetched. *)

\* the lock is held by no thread
free(l) == \A t \in Threads : l \notin holding[t]

\* (mutant) the with _rate_lock block is not left before the thread goes on
leave_rate_lock_late(h) == h

\* the with _rate_lock block ends (line 191 is its last statement)
leave_rate_lock(h) == h \ {"rate_lock"}

\* a worker takes an input: process_one, get_observation_data, fetch_api_data
LkBegin(t) ==
    /\ pc[t] = "lk_idle"
    /\ pending > 0
    /\ pending' = pending - 1
    /\ pc' = [pc EXCEPT ![t] = "lk_loop"]
    /\ attempt' = [attempt EXCEPT ![t] = 0]
    /\ tkey' = [tkey EXCEPT ![t] = 0]
    /\ UNCHANGED <<web_vars, batch_vars, now, rate_vars, wake, wait, seen, max_workers,
                   request_semaphore, MAX_WAIT_SECONDS, retries, transport, total_wait,
                   backoff, resp, first_retry_after, result, overloads, notified_patience,
                   notices, QUIET, retry_messages, requests_sent, taxon_cache, cached,
                   returned, via, taxon_fetches, failed_lookups, after_failure, main_vars,
                   lock_vars>>

\* while attempt < retries: attempt += 1; _rate_limit_wait() up to `with _rate_lock`,
\* which it does not reach when RATE_LIMIT_RPM <= 0; or the loop is over
LkLoop(t) ==
    /\ pc[t] = "lk_loop"
    /\ IF attempt[t] >= retries
       THEN /\ pc' = [pc EXCEPT ![t] = "lk_fetched"]
            /\ UNCHANGED <<attempt, holding>>
       ELSE /\ attempt' = [attempt EXCEPT ![t] = @ + 1]
            /\ IF RATE_LIMIT_RPM <= 0
               THEN /\ pc' = [pc EXCEPT ![t] = "lk_acquire"]
                    /\ UNCHANGED holding
               ELSE /\ free("rate_lock")
                    /\ holding' = [holding EXCEPT ![t] = @ \cup {"rate_lock"}]
                    /\ pc' = [pc EXCEPT ![t] = "lk_in_rate"]
    /\ UNCHANGED <<web_vars, batch_vars, now, rate_vars, wake, wait, seen, max_workers,
                   request_semaphore, MAX_WAIT_SECONDS, retries, transport, total_wait,
                   backoff, resp, first_retry_after, result, overloads, pending,
                   notified_patience, notices, QUIET, retry_messages, requests_sent,
                   caller_vars, main_vars>>

\* the with _rate_lock block ends; if wait > 0: time.sleep(wait)
LkRateUnlock(t) ==
    /\ pc[t] = "lk_in_rate"
    /\ holding' = [holding EXCEPT ![t] = leave_rate_lock(@)]
    /\ \E sleeps \in BOOLEAN :
           pc' = [pc EXCEPT ![t] = IF sleeps THEN "lk_sleep" ELSE "lk_acquire"]
    /\ UNCHANGED <<web_vars, batch_vars, now, rate_vars, wake, wait, seen, fetch_vars,
                   caller_vars, main_vars>>

\* time.sleep(wait) of _rate_limit_wait is over
LkSleepDone(t) ==
    /\ pc[t] = "lk_sleep"
    /\ pc' = [pc EXCEPT ![t] = "lk_acquire"]
    /\ UNCHANGED <<web_vars, batch_vars, now, rate_vars, wake, wait, seen, fetch_vars,
                   caller_vars, main_vars, lock_vars>>

\* with _request_semaphore: the permit is taken
LkPermit(t) ==
    /\ pc[t] = "lk_acquire"
    /\ may_acquire(request_semaphore)
    /\ request_semaphore' = request_semaphore - 1
    /\ holding' = [holding EXCEPT ![t] = @ \cup {"semaphore"}]
    /\ pc' = [pc EXCEPT ![t] = "lk_inflight"]
    /\ UNCHANGED <<web_vars, batch_vars, now, rate_vars, wake, wait, seen, max_workers,
                   MAX_WAIT_SECONDS, retries, transport, attempt, total_wait, backoff, resp,
                   first_retry_after, result, overloads, pending, notified_patience, notices,
                   QUIET, retry_messages, requests_sent, caller_vars, main_vars>>

\* session.get is over and the permit is given back; the response is transient (the
\* thread sleeps, then loops) or terminal (fetch_api_data returns)
LkRelease(t) ==
    /\ pc[t] = "lk_inflight"
    /\ request_semaphore' = released(request_semaphore)
    /\ holding' = [holding EXCEPT ![t] = @ \ {"semaphore"}]
    /\ \E transient \in BOOLEAN :
           pc' = [pc EXCEPT ![t] = IF transient THEN "lk_backoff" ELSE "lk_fetched"]
    /\ UNCHANGED <<web_vars, batch_vars, now, rate_vars, wake, wait, seen, max_workers,
                   MAX_WAIT_SECONDS, retries, transport, attempt, total_wait, backoff, resp,
                   first_retry_after, result, overloads, pending, notified_patience, notices,
                   QUIET, retry_messages, requests_sent, caller_vars, main_vars>>

\* time.sleep(wait) of a retry is over; continue
LkBackoffDone(t) ==
    /\ pc[t] = "lk_backoff"
    /\ pc' = [pc EXCEPT ![t] = "lk_loop"]
    /\ UNCHANGED <<web_vars, batch_vars, now, rate_vars, wake, wait, seen, fetch_vars,
                   caller_vars, main_vars, lock_vars>>

\* fetch_api_data has returned. After the observation's fetch the worker is done,
\* or get_taxon_details enters `with _taxon_cache_lock` to read the cache; after a
\* taxon's fetch get_taxon_details returns, or enters the lock to store the item
LkFetched(t) ==
    /\ pc[t] = "lk_fetched"
    /\ \/ /\ pc' = [pc EXCEPT ![t] = "lk_idle"]
          /\ UNCHANGED <<tkey, holding>>
       \/ /\ free("cache_lock")
          /\ holding' = [holding EXCEPT ![t] = @ \cup {"cache_lock"}]
          /\ IF tkey[t] = 0
             THEN \E k \in TaxonIds :
                     /\ tkey' = [tkey EXCEPT ![t] = k]
                     /\ pc' = [pc EXCEPT ![t] = "lk_cache_read"]
             ELSE /\ pc' = [pc EXCEPT ![t] = "lk_cache_write"]
                  /\ UNCHANGED tkey
    /\ UNCHANGED <<web_vars, batch_vars, now, rate_vars, wake, wait, seen, fetch_vars,
                   taxon_cache, cached, returned, via, taxon_fetches, failed_lookups,
                   after_failure, main_vars>>

\* a with _taxon_cache_lock block ends: after the read the entry is returned or the
\* taxon is fetched; after the write the item is returned
LkCacheUnlock(t) ==
    /\ pc[t] \in {"lk_cache_read", "lk_cache_write"}
    /\ holding' = [holding EXCEPT ![t] = @ \ {"cache_lock"}]
    /\ \/ /\ pc' = [pc EXCEPT ![t] = "lk_idle"]
          /\ UNCHANGED attempt
       \/ /\ pc[t] = "lk_cache_read"
          /\ pc' = [pc EXCEPT ![t] = "lk_loop"]
          /\ attempt' = [attempt EXCEPT ![t] = 0]
    /\ UNCHANGED <<web_vars, batch_vars, now, rate_vars, wake, wait, seen, max_workers,
                   request_semaphore, MAX_WAIT_SECONDS, retries, transport, total_wait,
                   backoff, resp, first_retry_after, result, overloads, pending,
                   notified_patience, notices, QUIET, retry_messages, requests_sent,
                   caller_vars, main_vars>>

---------------------------------------------------------------------------
(* The clock *)

sleeping(t) == pc[t] \in {"rl_sleep", "rate_sleep", "backoff"}

\* the clock runs on to the instant the next sleeper is due
Elapse ==
    /\ \E t \in Threads : sleeping(t) /\ wake[t] > now /\ wake[t] <= Sec(MaxClock)
    /\ now' = CHOOSE w \in {wake[t] : t \in {u \in Threads : sleeping(u) /\ wake[u] > now}} :
                  \A t \in Threads : (sleeping(t) /\ wake[t] > now) => w <= wake[t]
    /\ UNCHANGED <<web_vars, batch_vars, rate_vars, pc, wake, wait, seen, fetch_vars,
                   caller_vars, main_vars, lock_vars>>

TickDeltas == {Sec(window_seconds) \div 2, Sec(window_seconds) + 1}

\* the clock runs on while no thread of the model acts
Tick ==
    /\ \E d \in TickDeltas : now + d <= Sec(MaxClock) /\ now' = now + d
    /\ UNCHANGED <<web_vars, batch_vars, rate_vars, pc, wake, wait, seen, fetch_vars,
                   caller_vars, main_vars, lock_vars>>

---------------------------------------------------------------------------
(* Initial states and specifications *)

RateConfigs == {<<1, 1>>, <<1, 2>>, <<2, 1>>, <<2, 2>>, <<3, 3>>, <<0, 1>>}

InitThreads(start, tasks) ==
    /\ now = 0
    /\ request_times = <<>>
    /\ next_allowed_time = 0
    /\ admitted = <<>>
    /\ pc = start
    /\ wake = [t \in Threads |-> 0]
    /\ wait = 0
    /\ seen = 0
    /\ attempt = [t \in Threads |-> 0]
    /\ total_wait = [t \in Threads |-> 0]
    /\ backoff = [t \in Threads |-> 0]
    /\ resp = [t \in Threads |-> NoResponse]
    /\ first_retry_after = [t \in Threads |-> 0 - 1]
    /\ result = [t \in Threads |-> "none"]
    /\ overloads = <<>>
    /\ pending = tasks
    /\ notified_patience = [t \in Threads |-> FALSE]
    /\ notices = [t \in Threads |-> 0]
    /\ retry_messages = [t \in Threads |-> {}]
    /\ requests_sent = [t \in Threads |-> 0]
    /\ taxon_cache = [k \in TaxonIds \cup BatchKeys |-> "absent"]
    /\ tkey = [t \in Threads |-> 0]
    /\ cached = [t \in Threads |-> "absent"]
    /\ returned = [t \in Threads |-> "none"]
    /\ via = [t \in Threads |-> "none"]
    /\ taxon_fetches = [k \in TaxonIds |-> 0]
    /\ failed_lookups = {}
    /\ after_failure = [t \in Threads |-> FALSE]
    /\ holding = [t \in Threads |-> {}]

\* no run of main() is modelled: nothing submitted, nothing collected
NoRun ==
    /\ main_pc = "running"
    /\ find_ca = FALSE
    /\ inputs = [i \in Inputs |-> TRUE]
    /\ job = [t \in Threads |-> 0]
    /\ futures = [i \in Inputs |-> Queued]
    /\ own = [i \in Inputs |-> "none"]
    /\ next_future = 1
    /\ labels = <<>>
    /\ failed = <<>>
    /\ summary = <<>>

\* the batcher thread is not started (nothing in the program calls _start_taxon_batcher)
NoBatch ==
    /\ batch_pc = "collect"
    /\ taxon_batch_queue = <<>>
    /\ ids = <<>>
    /\ results_by_id = [k \in BatchKeys |-> "absent"]
    /\ taxon_pending = {}
    /\ woken = [t \in Threads |-> FALSE]
    /\ fulfilled = 0
    /\ written = {}

\* the web front-end is not running
NoWeb ==
    /\ MAX_CONCURRENT_JOBS = 1
    /\ FINISHED_JOB_TTL = 0
    /\ req = [j \in Requests |-> "new"]
    /\ proc = [j \in Requests |-> "none"]
    /\ jobs = {}
    /\ finished_time = [j \in Requests |-> 0 - 1]
    /\ stream = [j \in Requests |-> "none"]

\* the rate limiter alone, called by NThreads threads
InitRate ==
    /\ NoWeb
    /\ NoBatch
    /\ QUIET = FALSE
    /\ InitThreads([t \in Threads |-> "rl_idle"], 0)
    /\ NoRun
    /\ \E c \in RateConfigs : RATE_LIMIT_RPM = c[1] /\ SMOOTH_THRESHOLD = c[2]
    /\ max_workers = NThreads
    /\ request_semaphore = NThreads
    /\ MAX_WAIT_SECONDS = Sec(30)
    /\ retries = retries_default
    /\ transport = {}

NextRate ==
    \/ \E t \in Threads : CallRateLimitWait(t)
    \/ \E t \in Threads : RateSleepDone(t)
    \/ Elapse
    \/ Tick

SpecRate == InitRate /\ [][NextRate]_vars

NextFetch ==
    \/ \E t \in Threads : StartFetch(t)
    \/ \E t \in Threads : AdmissionSleepDone(t)
    \/ \E t \in Threads : Acquire(t)
    \/ \E t \in Threads : Receive(t)
    \/ \E t \in Threads : BackoffDone(t)
    \/ Elapse

\* the upstream of a long retry run: success, absence, overload, server error
PlainResponses ==
    {Response("none", 200, "json", <<"absent">>), Response("none", 404, "", <<"absent">>),
     Response("none", 429, "", <<"absent">>), Response("none", 503, "", <<"absent">>)}

\* one fetch_api_data call: the default six attempts and 30 s budget against the
\* plain upstream with the rate limit switched off, or three attempts against every
\* response, with a budget of 0.25 s or 30 s, the rate limit off or at one request a minute
InitFetch ==
    /\ NoWeb
    /\ NoBatch
    /\ QUIET \in BOOLEAN
    /\ InitThreads([t \in Threads |-> IF t = 1 THEN "idle" ELSE "off"], 1)
    /\ NoRun
    /\ max_workers = 1
    /\ request_semaphore = 1
    /\ SMOOTH_THRESHOLD = 1
    /\ \/ /\ retries = retries_default
          /\ MAX_WAIT_SECONDS = Sec(30)
          /\ RATE_LIMIT_RPM = 0
          /\ transport = PlainResponses
       \/ /\ retries = 3
          /\ MAX_WAIT_SECONDS \in {TicksPerSecond \div 4, Sec(30)}
          /\ RATE_LIMIT_RPM \in {0 - 1, 0, 1}
          /\ transport = Responses

SpecFetch == InitFetch /\ [][NextFetch]_vars

\* every thread fetching at once through a semaphore of fewer permits
InitConc ==
    /\ NoWeb
    /\ NoBatch
    /\ QUIET = FALSE
    /\ InitThreads([t \in Threads |-> "idle"], NTasks)
    /\ NoRun
    /\ \E c \in {<<6, 1>>} : RATE_LIMIT_RPM = c[1] /\ SMOOTH_THRESHOLD = c[2]
    /\ max_workers \in 1..NThreads
    /\ request_semaphore = max_workers
    /\ MAX_WAIT_SECONDS = Sec(30)
    /\ retries = 1
    /\ transport = {Response("none", 200, "json", <<"absent">>),
                    Response("none", 429, "", <<"date", 0 - 5>>)}

SpecConc == InitConc /\ [][NextFetch]_vars

TaxonResponses ==
    {Response("none", 200, b, <<"absent">>) : b \in TaxonBodies}
        \cup {Response("none", 404, "", <<"absent">>),
              Response("none", 429, "", <<"date", 0 - 5>>)}

\* the workers of a run looking taxa up with the rate limit switched off
\* (INAT_RATE_LIMIT_RPM=0), each lookup a fetch of one attempt
InitTaxon ==
    /\ NoWeb
    /\ NoBatch
    /\ QUIET = FALSE
    /\ InitThreads([t \in Threads |-> "tx_idle"], NTasks)
    /\ NoRun
    /\ RATE_LIMIT_RPM = 0
    /\ SMOOTH_THRESHOLD = 1
    /\ max_workers = NThreads
    /\ request_semaphore = max_workers
    /\ MAX_WAIT_SECONDS = Sec(30)
    /\ retries = 1
    /\ transport = TaxonResponses

NextTaxon ==
    \/ \E t \in Threads, k \in TaxonIds : Resolve(t, k)
    \/ \E t \in Threads : Acquire(t)
    \/ \E t \in Threads : Receive(t)
    \/ \E t \in Threads : BackoffDone(t)
    \/ \E t \in Threads : ResolveDone(t)
    \/ Elapse

SpecTaxon == InitTaxon /\ [][NextTaxon]_vars

RunResponses ==
    {Response("none", 200, b, <<"absent">>) : b \in {"json", "odd"}}
        \cup {Response("none", 404, "", <<"absent">>),
              Response("none", 429, "", <<"date", 0 - 5>>)}

\* a run of main() over NTasks inputs, the first of which may be unrecognisable, with
\* the rate limit switched off and fetches of one attempt
InitRun ==
    /\ NoWeb
    /\ NoBatch
    /\ QUIET = FALSE
    /\ InitThreads([t \in Threads |-> "w_idle"], NTasks)
    /\ main_pc = "start"
    /\ find_ca \in BOOLEAN
    /\ inputs \in {[i \in Inputs |-> TRUE], [i \in Inputs |-> i # 1]}
    /\ job = [t \in Threads |-> 0]
    /\ futures = [i \in Inputs |-> Queued]
    /\ own = [i \in Inputs |-> "none"]
    /\ next_future = 1
    /\ labels = <<>>
    /\ failed = <<>>
    /\ summary = <<>>
    /\ RATE_LIMIT_RPM = 0
    /\ SMOOTH_THRESHOLD = 1
    /\ max_workers \in WorkerEnvs
    /\ request_semaphore = max_workers
    /\ MAX_WAIT_SECONDS = Sec(30)
    /\ retries = 1
    /\ transport = RunResponses

NextRun ==
    \/ Setup
    \/ \E t \in Threads : Work(t)
    \/ \E t \in Threads : Acquire(t)
    \/ \E t \in Threads : Receive(t)
    \/ \E t \in Threads : BackoffDone(t)
    \/ \E t \in Threads : WorkDone(t)
    \/ Collect
    \/ Summarize
    \/ Elapse

SpecRun == InitRun /\ [][NextRun]_vars

\* the workers of a run seen through their locks, with the rate limit on or off
InitLocks ==
    /\ NoWeb
    /\ NoBatch
    /\ QUIET = FALSE
    /\ InitThreads([t \in Threads |-> "lk_idle"], NTasks)
    /\ NoRun
    /\ RATE_LIMIT_RPM \in {0, 6}
    /\ SMOOTH_THRESHOLD = 1
    /\ max_workers = NThreads
    /\ request_semaphore = max_workers
    /\ MAX_WAIT_SECONDS = Sec(30)
    /\ retries = 2
    /\ transport = {}

NextLocks ==
    \/ \E t \in Threads : LkBegin(t)
    \/ \E t \in Threads : LkLoop(t)
    \/ \E t \in Threads : LkRateUnlock(t)
    \/ \E t \in Threads : LkSleepDone(t)
    \/ \E t \in Threads : LkPermit(t)
    \/ \E t \in Threads : LkRelease(t)
    \/ \E t \in Threads : LkBackoffDone(t)
    \/ \E t \in Threads : LkFetched(t)
    \/ \E t \in Threads : LkCacheUnlock(t)

SpecLocks == InitLocks /\ [][NextLocks]_vars

\* what thread t can do next
LkStep(t) ==
    \/ LkBegin(t)
    \/ LkLoop(t)
    \/ LkRateUnlock(t)
    \/ LkSleepDone(t)
    \/ LkPermit(t)
    \/ LkRelease(t)
    \/ LkBackoffDone(t)
    \/ LkFetched(t)
    \/ LkCacheUnlock(t)

\* the same workers under a scheduler that lets every thread that can run do so in
\* the end: a sleep ends, session.get returns or times out (timeout=20), a free lock
\* is taken by a thread that waits for it
SpecLocksFair == SpecLocks /\ \A t \in Threads : WF_vars(LkStep(t))

---------------------------------------------------------------------------
(* The taxon batcher: _loop of _start_taxon_batcher, with callers that register an *)
(* event for a key in _taxon_pending, queue the key and wait for the event.        *)

TAXON_BATCH_MAX == 50

\* what the batcher and its callers leave alone
outside_batch == <<now, rate_vars, wake, wait, seen, max_workers, request_semaphore,
                   MAX_WAIT_SECONDS, retries, transport, attempt, total_wait, backoff, resp,
                   first_retry_after, result, overloads, notified_patience, notices, QUIET,
                   retry_messages, requests_sent, cached, via, taxon_fetches, failed_lookups,
                   after_failure, main_vars, lock_vars, web_vars>>

\* the batcher is inside `with _taxon_pending_lock: with _taxon_cache_lock:`
fulfilling == batch_pc \in {"fulfil_write", "fulfil_signal"}

\* a caller asks for key k: served from the cache, attached to the event already
\* registered for k, or registering one and queueing the key
Request(t, k) ==
    /\ pc[t] = "bt_idle"
    /\ pending > 0
    /\ ~fulfilling
    /\ pending' = pending - 1
    /\ tkey' = [tkey EXCEPT ![t] = k]
    /\ IF cache_hit(taxon_cache[k])
       THEN /\ returned' = [returned EXCEPT ![t] = taxon_cache[k]]
            /\ UNCHANGED <<pc, taxon_pending, taxon_batch_queue>>
       ELSE /\ pc' = [pc EXCEPT ![t] = "bt_wait"]
            /\ returned' = [returned EXCEPT ![t] = "none"]
            /\ IF k \in taxon_pending
               THEN UNCHANGED <<taxon_pending, taxon_batch_queue>>
               ELSE /\ taxon_pending' = taxon_pending \cup {k}
                    /\ taxon_batch_queue' = Append(taxon_batch_queue, k)
    /\ UNCHANGED <<outside_batch, taxon_cache, batch_pc, ids, results_by_id, woken, fulfilled,
                   written>>

\* the event a caller waits on is set: it reads the cache and returns the entry
Wake(t) ==
    /\ pc[t] = "bt_wait"
    /\ woken[t]
    /\ ~fulfilling
    /\ returned' = [returned EXCEPT ![t] = taxon_cache[tkey[t]]]
    /\ pc' = [pc EXCEPT ![t] = "bt_idle"]
    /\ woken' = [woken EXCEPT ![t] = FALSE]
    /\ UNCHANGED <<outside_batch, pending, tkey, taxon_cache, batch_pc, taxon_batch_queue, ids,
                   results_by_id, taxon_pending, fulfilled, written>>

\* one pass of the collecting loop that finds a key queued (lines 610-615)
BatchCollect ==
    /\ batch_pc = "collect"
    /\ Len(ids) < TAXON_BATCH_MAX
    /\ taxon_batch_queue # <<>>
    /\ taxon_batch_queue' = Tail(taxon_batch_queue)
    /\ ids' = IF \E i \in 1..Len(ids) : ids[i] = Head(taxon_batch_queue)
              THEN ids ELSE Append(ids, Head(taxon_batch_queue))
    /\ UNCHANGED <<outside_batch, pc, pending, tkey, returned, taxon_cache, batch_pc,
                   results_by_id, taxon_pending, woken, fulfilled, written>>

\* the batch is closed, its window over or its size reached, and the request goes
\* out (lines 619-621, 633-635)
BatchClose ==
    /\ batch_pc = "collect"
    /\ ids # <<>>
    /\ batch_pc' = "fetch"
    /\ UNCHANGED <<outside_batch, pc, pending, tkey, returned, taxon_cache, taxon_batch_queue,
                   ids, results_by_id, taxon_pending, woken, fulfilled, written>>

\* what fetch_api_data can bring for a batch: an error or a body without results
\* (no key has an item), or results with an item, with ancestors or without, for
\* some keys of the batch
BatchResults(batch) ==
    {r \in [BatchKeys -> {"absent", "partial", "full"}] :
        \A k \in BatchKeys : (\A i \in 1..Len(batch) : batch[i] # k) => r[k] = "absent"}

\* data, error = fetch_api_data(url); results_by_id is built (lines 635-641)
BatchFetch ==
    /\ batch_pc = "fetch"
    /\ results_by_id' \in BatchResults(ids)
    /\ batch_pc' = "fulfil_write"
    /\ fulfilled' = 0
    /\ written' = {}
    /\ UNCHANGED <<outside_batch, pc, pending, tkey, returned, taxon_cache, taxon_batch_queue,
                   ids, taxon_pending, woken>>

\* (mutant) a key the response omitted keeps the entry it had
batch_entry_kept(cache, results, k) == IF results[k] = "absent" THEN cache[k] ELSE results[k]

\* _taxon_cache[tid] = results_by_id.get(tid)
batch_entry(cache, results, k) == results[k]

\* line 647, for the key the for loop is at
FulfilWrite ==
    /\ batch_pc = "fulfil_write"
    /\ LET k == ids[fulfilled + 1]
       IN /\ taxon_cache' = [taxon_cache EXCEPT ![k] = batch_entry(taxon_cache, results_by_id, k)]
          /\ written' = written \cup {k}
    /\ batch_pc' = "fulfil_signal"
    /\ UNCHANGED <<outside_batch, pc, pending, tkey, returned, taxon_batch_queue, ids,
                   results_by_id, taxon_pending, woken, fulfilled>>

\* lines 648-651 for that key: its event, if one is registered, is set and the key
\* leaves _taxon_pending; after the last key both locks are released
FulfilSignal ==
    /\ batch_pc = "fulfil_signal"
    /\ LET k == ids[fulfilled + 1]
       IN /\ woken' = [t \in Threads |->
                          IF k \in taxon_pending /\ pc[t] = "bt_wait" /\ tkey[t] = k
                          THEN TRUE ELSE woken[t]]
          /\ taxon_pending' = taxon_pending \ {k}
    /\ fulfilled' = fulfilled + 1
    /\ batch_pc' = IF fulfilled' = Len(ids) THEN "completed" ELSE "fulfil_write"
    /\ UNCHANGED <<outside_batch, pc, pending, tkey, returned, taxon_cache, taxon_batch_queue,
                   ids, results_by_id, written>>

\* the outer loop starts over: ids = [] (lines 606-608)
BatchNext ==
    /\ batch_pc = "completed"
    /\ batch_pc' = "collect"
    /\ ids' = <<>>
    /\ UNCHANGED <<outside_batch, pc, pending, tkey, returned, taxon_cache, taxon_batch_queue,
                   results_by_id, taxon_pending, woken, fulfilled, written>>

\* the batcher started and NThreads callers asking for NTasks taxa in all
InitBatch ==
    /\ NoWeb
    /\ InitThreads([t \in Threads |-> "bt_idle"], NTasks)
    /\ NoRun
    /\ NoBatch
    /\ QUIET = FALSE
    /\ RATE_LIMIT_RPM = 0
    /\ SMOOTH_THRESHOLD = 1
    /\ max_workers = NThreads
    /\ request_semaphore = max_workers
    /\ MAX_WAIT_SECONDS = Sec(30)
    /\ retries = retries_default
    /\ transport = {}

NextBatch ==
    \/ \E t \in Threads, k \in BatchKeys : Request(t, k)
    \/ \E t \in Threads : Wake(t)
    \/ BatchCollect
    \/ BatchClose
    \/ BatchFetch
    \/ FulfilWrite
    \/ FulfilSignal
    \/ BatchNext

SpecBatch == InitBatch /\ [][NextBatch]_vars

---------------------------------------------------------------------------
(* The web front-end (flask web frontend/app.py): print_start, print_stream and the *)
(* reaper thread around the job table _jobs. Each request handler runs in a thread  *)
(* of its own; a job is known by the request that started it.                       *)

outside_web == <<rate_vars, pc, wake, wait, seen, fetch_vars, caller_vars, main_vars, lock_vars,
                 batch_vars>>

\* _reap_finished_jobs_locked: the jobs it pops, those marked longer than the TTL ago
reaped(table, ft, t, ttl) == {j \in table : ft[j] # 0 - 1 /\ t > ft[j] + Sec(ttl)}

\* _reap_finished_jobs_locked: the finish marks after it, a job not yet marked whose
\* process has ended being marked now
marked(table, ft, procs, t) ==
    [j \in Requests |-> IF j \in table /\ ft[j] = 0 - 1 /\ procs[j] = "exited" THEN t ELSE ft[j]]

\* the jobs print_start counts: proc.poll() is None
active(table, procs) == Cardinality({j \in table : procs[j] = "running"})

\* print_start up to the end of its first `with _jobs_lock` block: a 400 for a bad
\* form, or the reaping, the count of active jobs and the 429
PrintStartCheck(j) ==
    /\ req[j] = "new"
    /\ \/ /\ req' = [req EXCEPT ![j] = "400"]
          /\ UNCHANGED <<jobs, finished_time>>
       \/ /\ jobs' = jobs \ reaped(jobs, finished_time, now, FINISHED_JOB_TTL)
          /\ finished_time' = marked(jobs, finished_time, proc, now)
          /\ req' = [req EXCEPT ![j] =
                        IF active(jobs', proc) >= MAX_CONCURRENT_JOBS THEN "429" ELSE "checked"]
    /\ UNCHANGED <<outside_web, now, MAX_CONCURRENT_JOBS, FINISHED_JOB_TTL, proc, stream>>

\* print_start from line 563 to the Popen: a 400 when no observation is valid, or
\* the subprocess is started
PrintStartSpawn(j) ==
    /\ req[j] = "checked"
    /\ \/ /\ req' = [req EXCEPT ![j] = "400"]
          /\ UNCHANGED proc
       \/ /\ req' = [req EXCEPT ![j] = "spawned"]
          /\ proc' = [proc EXCEPT ![j] = "running"]
    /\ UNCHANGED <<outside_web, now, MAX_CONCURRENT_JOBS, FINISHED_JOB_TTL, jobs, finished_time,
                   stream>>

\* print_start's second `with _jobs_lock` block: the job enters the table
PrintStartRegister(j) ==
    /\ req[j] = "spawned"
    /\ req' = [req EXCEPT ![j] = "registered"]
    /\ jobs' = jobs \cup {j}
    /\ UNCHANGED <<outside_web, now, MAX_CONCURRENT_JOBS, FINISHED_JOB_TTL, proc, finished_time,
                   stream>>

\* the subprocess ends by itself
ProcExit(j) ==
    /\ proc[j] = "running"
    /\ proc' = [proc EXCEPT ![j] = "exited"]
    /\ UNCHANGED <<outside_web, now, MAX_CONCURRENT_JOBS, FINISHED_JOB_TTL, req, jobs,
                   finished_time, stream>>

\* print_stream finds the job in the table and starts to stream its output
StreamOpen(j) ==
    /\ j \in jobs
    /\ stream[j] = "none"
    /\ stream' = [stream EXCEPT ![j] = "open"]
    /\ UNCHANGED <<outside_web, now, MAX_CONCURRENT_JOBS, FINISHED_JOB_TTL, req, proc, jobs,
                   finished_time>>

\* the stream ends, at the end of the output or because the client has gone, and the
\* finally block of generate runs: a process still running is sent terminate and
\* waited for, for 5 s at most, and the job, if still in the table, is marked finished
StreamEnd(j) ==
    /\ stream[j] = "open"
    /\ stream' = [stream EXCEPT ![j] = "closed"]
    /\ \E after \in {"running", "exited"} :
          proc' = [proc EXCEPT ![j] = IF proc[j] = "running" THEN after ELSE @]
    /\ finished_time' = [finished_time EXCEPT ![j] = IF j \in jobs THEN now ELSE @]
    /\ UNCHANGED <<outside_web, now, MAX_CONCURRENT_JOBS, FINISHED_JOB_TTL, req, jobs>>

\* _reaper_thread: _reap_finished_jobs() after a sleep of 10 s
Reaper ==
    /\ jobs' = jobs \ reaped(jobs, finished_time, now, FINISHED_JOB_TTL)
    /\ finished_time' = marked(jobs, finished_time, proc, now)
    /\ UNCHANGED <<outside_web, now, MAX_CONCURRENT_JOBS, FINISHED_JOB_TTL, req, proc, stream>>

\* time.time() goes on by a second
WebTick ==
    /\ now < Sec(MaxWebClock)
    /\ now' = now + Sec(1)
    /\ UNCHANGED <<outside_web, web_vars>>

\* the front-end with NRequests print_start requests to come
InitWeb ==
    /\ InitThreads([t \in Threads |-> "off"], 0)
    /\ NoRun
    /\ NoBatch
    /\ QUIET = FALSE
    /\ RATE_LIMIT_RPM = 0
    /\ SMOOTH_THRESHOLD = 1
    /\ max_workers = NThreads
    /\ request_semaphore = max_workers
    /\ MAX_WAIT_SECONDS = Sec(30)
    /\ retries = retries_default
    /\ transport = {}
    /\ MAX_CONCURRENT_JOBS \in {1, 2}
    /\ FINISHED_JOB_TTL \in {0, 2}
    /\ req = [j \in Requests |-> "new"]
    /\ proc = [j \in Requests |-> "none"]
    /\ jobs = {}
    /\ finished_time = [j \in Requests |-> 0 - 1]
    /\ stream = [j \in Requests |-> "none"]

NextWeb ==
    \/ \E j \in Requests : PrintStartCheck(j)
    \/ \E j \in Requests : PrintStartSpawn(j)
    \/ \E j \in Requests : PrintStartRegister(j)
    \/ \E j \in Requests : ProcExit(j)
    \/ \E j \in Requests : StreamOpen(j)
    \/ \E j \in Requests : StreamEnd(j)
    \/ Reaper
    \/ WebTick

SpecWeb == InitWeb /\ [][NextWeb]_vars

---------------------------------------------------------------------------
(* The claims *)

in_flight == {t \in Threads : pc[t] = "inflight"}

\* a transient outcome as the specification lists them: 429, 5xx, timeout, connection error
TransientOutcome(r) ==
    \/ r.exc \in {"Timeout", "RequestException"}
    \/ r.exc = "none" /\ r.status = 429
    \/ r.exc = "none" /\ r.status \in 500..599

\* a success with an empty or unparsable body, or a status other than 200/404/429/5xx
TerminalOutcome(r) ==
    /\ r.exc = "none"
    /\ \/ r.status = 200 /\ r.body \in {"empty", "garbage"}
       \/ r.status \notin ({0, 200, 404, 429} \cup (500..599))

\* C1: no rolling 60-second window holds more than RATE_LIMIT_RPM recorded
\* admission instants (windows taken half-open, [a, a + 60 s), starting at
\* each recorded instant).
C1_WindowCap ==
    RATE_LIMIT_RPM > 0 =>
        \A i \in 1..Len(admitted) :
            Cardinality({j \in 1..Len(admitted) :
                            admitted[i] <= admitted[j] /\ admitted[j] < admitted[i] + window})
                <= RATE_LIMIT_RPM

C3_InFlightWithinTarget == Cardinality(in_flight) <= max_workers

\* every permit is held while another thread waits for one
C3_Witness ==
    /\ Cardinality(in_flight) = max_workers
    /\ \E t \in Threads : pc[t] = "acquire"

C5_WaitWithinBudget ==
    \A t \in Threads : total_wait[t] + backoff[t] <= MAX_WAIT_SECONDS

\* C6: no attempt is under way once the cumulative wait has reached the budget, and
\* the 'exceeded retries' error is returned with the attempts used up or the budget spent.
C6_NoAttemptOnceBudgetSpent ==
    \A t \in Threads :
        /\ pc[t] \in {"rate_sleep", "acquire", "inflight"} => total_wait[t] < MAX_WAIT_SECONDS
        /\ result[t] = "Exceeded maximum retries" =>
               (attempt[t] = retries \/ total_wait[t] >= MAX_WAIT_SECONDS)

\* C11: one fetch prints the 'being patient' note at most once, and has printed
\* it exactly when its cumulative wait, the current one included, has reached 8 s.
C11_PatienceNoticeOnce ==
    \A t \in Threads :
        notices[t] = (IF total_wait[t] + backoff[t] >= Sec(patience_notice_threshold)
                      THEN 1 ELSE 0)

\* the positions of a thread inside fetch_api_data
FetchStates == {"rate_sleep", "acquire", "inflight", "backoff", "done"}

\* the threads whose lookup of taxon k is inside its fetch
resolving(k) == {t \in Threads : tkey[t] = k /\ pc[t] \in FetchStates}

\* thread t returns from a lookup whose fetch came back, failed or not
lookup_returns(t) == pc[t] = "done" /\ pc'[t] = "resolved"

\* the fetch thread t returns from brought an item
brought_item(t) == result[t] = "ok" /\ resp[t].body \in {"full", "partial"}

C13_CachedNeverRefetched ==
    \A t \in Threads :
        (pc[t] # "tx_idle" /\ cached[t] # "absent") =>
            (pc[t] = "resolved" /\ via[t] = "cache" /\ returned[t] = cached[t])

\* C13 as amended: a lookup that finds an entry with ancestors for its id calls no
\* fetch and returns the entry.
C13_FullEntryNeverRefetched ==
    \A t \in Threads :
        (pc[t] # "tx_idle" /\ cached[t] = "full") =>
            (pc[t] = "resolved" /\ via[t] = "cache" /\ returned[t] = cached[t])

\* a lookup was served the entry an earlier fetch had stored
C13_Witness ==
    \E t \in Threads :
        /\ pc[t] = "resolved"
        /\ via[t] = "cache"
        /\ returned[t] = "full"
        /\ taxon_fetches[tkey[t]] >= 1

labels_of(i) == Cardinality({n \in 1..Len(labels) : labels[n] = i})
failures_of(i) == Cardinality({n \in 1..Len(failed) : failed[n][2] = i})

\* every input has exactly one outcome and the summary adds up
one_outcome_each ==
    /\ \A i \in Inputs : labels_of(i) + failures_of(i) = 1
    /\ Len(summary) = 3
    /\ summary[1] = summary[2] + summary[3]

\* C15 as stated: when the run is over every input has ended as exactly one label
\* or one failure entry, and the summary has requested = generated + failed.
C15_OneOutcomePerInput == main_pc = "finished" => one_outcome_each

\* C15 as amended: the same of every run without --find-ca.
C15_OneOutcomePerInputUnlessFindCa ==
    (main_pc = "finished" /\ ~find_ca) => one_outcome_each

\* a run without --find-ca has ended with labels and failures
C15_Witness ==
    /\ main_pc = "finished"
    /\ ~find_ca
    /\ Len(labels) >= 1
    /\ Len(failed) >= 1

\* the inputs whose fetch ended in an error
errored == {i \in Inputs : own[i] = "error"}

\* C16: once the futures are collected, every input whose fetch ended in an error
\* has exactly one failure entry naming it and no label, and the failure entries
\* naming such inputs are as many as these inputs.
C16_FailureNamesIdentifier ==
    main_pc \in {"collected", "finished"} =>
        /\ \A i \in errored : failures_of(i) = 1 /\ labels_of(i) = 0
        /\ Cardinality({n \in 1..Len(failed) : failed[n][2] \in errored}) = Cardinality(errored)

\* a run has ended with two inputs failed on fetch errors and one labelled
C16_Witness ==
    /\ main_pc = "finished"
    /\ Cardinality(errored) >= 2
    /\ Len(labels) >= 1

\* C17: main() is never ended by what process_one met, a future once set keeps its
\* content, and at the end every input whose own fetch brought a good observation
\* is labelled (without --find-ca) whatever became of the others.
C17_FailuresIsolated ==
    [][/\ main_pc' \in {"start", "running", "collected", "finished", "ValueError"}
       /\ \A i \in Inputs :
             /\ futures[i].status \notin {"queued", "running"} => futures'[i] = futures[i]
             /\ main_pc' = "finished" => futures'[i].status \in {"ok", "err", "skip"}
             /\ (main_pc' = "finished" /\ ~find_ca /\ own'[i] = "json")
                    => (futures'[i] = Outcome("ok", "label", i) /\ labels_of(i)' = 1)]_vars

\* a run has ended in which an input met an exception or a fetch error and a later
\* one was labelled
C17_Witness ==
    /\ main_pc = "finished"
    /\ \E i, j \in Inputs :
        /\ i < j
        /\ own[i] \in {"odd", "error"}
        /\ futures[i].status = "err"
        /\ own[j] = "json"
        /\ labels_of(j) = 1

\* C18: once main() has set the pool up, the target and the permits of the semaphore
\* are at least 1 and no ValueError has ended the run.
C18_TargetClampedToOne ==
    main_pc # "start" =>
        (max_workers >= 1 /\ request_semaphore >= 1 /\ main_pc # "ValueError")

\* C19: no step lowers the smoothing cursor _next_allowed_time.
C19_CursorMonotonic == [][next_allowed_time' >= next_allowed_time]_vars

\* the locks of the three components
Locks == {"rate_lock", "semaphore", "cache_lock"}

C7_NotFoundImmediate ==
    \A t \in Threads :
        (resp[t].exc = "none" /\ resp[t].status = 404) =>
            /\ pc[t] = "done"
            /\ result[t] = "Not found (404)"
            /\ backoff[t] = 0
            /\ attempt[t] = 1 => total_wait[t] = 0

\* a 404 ended a fetch that had retried before
C7_Witness ==
    \E t \in Threads :
        /\ resp[t].status = 404
        /\ attempt[t] >= 2
        /\ total_wait[t] > 0
        /\ result[t] = "Not found (404)"

\* the fetch that got a 429 with Retry-After: r seconds and then a valid 200
RetryAfterThenSuccess(t) ==
    /\ first_retry_after[t] >= 0
    /\ attempt[t] = 2
    /\ resp[t] = Response("none", 200, "json", <<"absent">>)

C9_TransientNeverSurfaced ==
    \A t \in Threads :
        /\ TransientOutcome(resp[t]) => (pc[t] = "backoff" /\ result[t] = "none")
        /\ result[t] = "Exceeded maximum retries" => (pc[t] = "done" /\ attempt[t] = retries)

\* the default six attempts were all used before 'exceeded retries' came back
C9_Witness ==
    \E t \in Threads :
        /\ result[t] = "Exceeded maximum retries"
        /\ retries = retries_default
        /\ attempt[t] = retries_default
        /\ total_wait[t] > 0

\* C10: an empty or unparsable 200, or a status other than 200/404/429/5xx, ends
\* the fetch at that attempt with a terminal error and no wait.
C10_TerminalAtOnce ==
    \A t \in Threads :
        TerminalOutcome(resp[t]) =>
            /\ pc[t] = "done"
            /\ backoff[t] = 0
            /\ result[t] = (IF resp[t].status # 200 THEN "HTTP error"
                            ELSE IF resp[t].body = "empty" THEN "Empty response"
                            ELSE "Error parsing JSON")

\* a 403 ended a fetch that had retried before
C10_Witness ==
    \E t \in Threads :
        /\ resp[t].status = 403
        /\ attempt[t] >= 2
        /\ total_wait[t] > 0
        /\ result[t] = "HTTP error"

\* C21: with a rate of zero or less no call of _rate_limit_wait changes the admission
\* history or the cursor or puts its thread to sleep: a fetch that enters an attempt
\* is at the semaphore in the same step.
C21_PassThrough ==
    [][RATE_LIMIT_RPM <= 0 =>
          /\ request_times' = request_times
          /\ next_allowed_time' = next_allowed_time
          /\ admitted' = admitted
          /\ \A t \in Threads :
                /\ pc'[t] # "rate_sleep"
                /\ attempt'[t] = attempt[t] + 1 => (pc'[t] = "acquire" /\ wake'[t] = 0)]_vars

\* with a negative rate a fetch has passed _rate_limit_wait a second time, after a retry
C21_Witness ==
    /\ RATE_LIMIT_RPM < 0
    /\ \E t \in Threads : pc[t] = "acquire" /\ attempt[t] = 2 /\ total_wait[t] > 0
    /\ request_times = <<>>
    /\ next_allowed_time = 0

\* C22: in quiet mode a fetch prints no per-attempt retry message, whatever it
\* retries on: 429, 5xx, timeout or network error.
C22_QuietNoRetryMessage ==
    \A t \in Threads : QUIET => retry_messages[t] = {}

\* C23: an attempt, which passes _rate_limit_wait once, puts no more than one
\* request on the wire, and the permits out of the semaphore are those of the
\* threads inside session.get().
C23_RequestsAdmittedAndBracketed ==
    /\ \A t \in Threads : requests_sent[t] <= 1
    /\ request_semaphore = max_workers - Cardinality(in_flight)

\* C24: _request_times is ordered oldest first: no entry is earlier than one before it.
C24_HistoryOrdered ==
    \A i, j \in 1..Len(request_times) : i < j => request_times[i] <= request_times[j]

\* C25: a thread asleep in time.sleep, of _rate_limit_wait or of a retry, does not
\* hold _rate_lock; whoever holds it is inside the with block, which does not sleep.
C25_NoSleepUnderRateLock ==
    \A t \in Threads :
        /\ pc[t] \in {"lk_sleep", "lk_backoff"} => "rate_lock" \notin holding[t]
        /\ "rate_lock" \in holding[t] => pc[t] = "lk_in_rate"

\* one caller sleeps the wait of _rate_limit_wait while another is inside the with
\* block doing its own admission check
C25_Witness ==
    \E t, u \in Threads :
        /\ pc[t] = "lk_sleep"
        /\ pc[u] = "lk_in_rate"
        /\ holding[u] = {"rate_lock"}

\* the step that ends the `for tid in ids` loop of a batch
batch_completes == batch_pc # "completed" /\ batch_pc' = "completed"

\* C26: when a batch completes, every key of it has the cache entry the response
\* gave (absent if it gave none or the call failed), is out of _taxon_pending and
\* has every waiter's event set; and an event is set only for a key whose cache
\* entry the batch has already written.
C26_BatchFulfilsEveryKey ==
    [][/\ batch_completes =>
             \A i \in 1..Len(ids') :
                 /\ ids'[i] \in written'
                 /\ taxon_cache'[ids'[i]] = results_by_id'[ids'[i]]
                 /\ ids'[i] \notin taxon_pending'
                 /\ \A t \in Threads :
                        (pc'[t] = "bt_wait" /\ tkey'[t] = ids'[i]) => woken'[t]
       /\ \A t \in Threads : (~woken[t] /\ woken'[t]) => tkey[t] \in written]_vars

\* a batch of two keys has completed, one key with an item and one the response
\* omitted, with a waiter for each
C26_Witness ==
    /\ batch_pc = "completed"
    /\ Len(ids) = 2
    /\ \E k, l \in BatchKeys :
          /\ taxon_cache[k] = "full"
          /\ taxon_cache[l] = "absent"
          /\ \E t, u \in Threads :
                /\ pc[t] = "bt_wait" /\ tkey[t] = k /\ woken[t]
                /\ pc[u] = "bt_wait" /\ tkey[u] = l /\ woken[u]

\* C27: no more than MAX_CONCURRENT_JOBS subprocesses run at once, and a request
\* that finds that many jobs active when it is checked is answered 429.
C27_RunningWithinMax ==
    Cardinality({j \in Requests : proc[j] = "running"}) <= MAX_CONCURRENT_JOBS

\* C28: a job leaves the table only when it has been marked finished, more than
\* FINISHED_JOB_TTL seconds have passed since the mark, and its subprocess is
\* not running.
C28_ReapedOnlyWhenFinished ==
    [][\A j \in jobs \ jobs' :
          /\ finished_time[j] # 0 - 1
          /\ now > finished_time[j] + Sec(FINISHED_JOB_TTL)
          /\ proc[j] # "running"]_vars

\* C29: the labels collected so far are in the order of their inputs, and all of
\* them belong to inputs before the future main() waits for.
C29_LabelsInInputOrder ==
    /\ \A m, n \in 1..Len(labels) : m < n => labels[m] < labels[n]
    /\ \A n \in 1..Len(labels) : labels[n] < next_future

\* the label of the first input is collected and main() waits for the second
\* input, still being worked on, while the third has its label ready
C29_Witness ==
    /\ labels = <<1>>
    /\ next_future = 2
    /\ futures[2].status = "running"
    /\ futures[3].status = "ok"

\* every input is taken and every worker is back in the pool with nothing held
lk_done == pending = 0 /\ \A t \in Threads : pc[t] = "lk_idle" /\ holding[t] = {}

\* C30: a state in which no thread can take a step is the end of the run; a thread
\* that waits for _rate_lock or for a permit gets it; and the run ends, every
\* input taken and every worker idle with nothing held.
C30_NoDeadlockAndTermination ==
    /\ [](lk_done \/ ENABLED NextLocks)
    /\ \A t \in Threads :
          /\ (pc[t] = "lk_loop" /\ attempt[t] < retries /\ RATE_LIMIT_RPM > 0)
                 ~> ("rate_lock" \in holding[t])
          /\ (pc[t] = "lk_acquire") ~> ("semaphore" \in holding[t])
    /\ <>[]lk_done

\* a worker waits for _rate_lock, held by another, while it has retried
C30_Witness ==
    \E t, u \in Threads :
        /\ pc[t] = "lk_loop"
        /\ attempt[t] = 1
        /\ RATE_LIMIT_RPM > 0
        /\ "rate_lock" \in holding[u]
        /\ pending = 0

====
